---- MODULE Spec2Model ----
(***************************************************************************)
(* Weekly report frontend: the OAuth callback page (two implementations,   *)
(* runCheck/waitForSession in pages/AuthCallback.jsx and finalize in the   *)
(* second AuthCallback source) and the AuthProvider role/team pipeline.    *)
(***************************************************************************)
EXTENDS Integers, Sequences, FiniteSets, TLC

(* ------------------------------------------------------------------ *)
(* Bounds of the model                                                 *)
(* ------------------------------------------------------------------ *)
\* milliseconds that pass in one step of the clock
TickMs == 4000
\* number of runCheck runs (first run plus retries) explored per page load
MaxRuns == 3
\* auth-state-change events delivered to AuthProvider per page load
MaxEvents == 2
\* event handlers of AuthProvider awaiting their profile lookup at once
MaxPending == 2

(* ------------------------------------------------------------------ *)
(* Program constants                                                   *)
(* ------------------------------------------------------------------ *)
\* waitForSession(12000) / setTimeout(..., 12000)
TimeoutMs == 12000

(* ------------------------------------------------------------------ *)
(* Strings are sequences of one-character strings                      *)
(* ------------------------------------------------------------------ *)
UpperChars == <<"A","B","C","D","E","F","G","H","I","J","K","L","M",
                "N","O","P","Q","R","S","T","U","V","W","X","Y","Z">>
LowerChars == <<"a","b","c","d","e","f","g","h","i","j","k","l","m",
                "n","o","p","q","r","s","t","u","v","w","x","y","z">>

\* the upper-case letters, and the lower-case letter of each
UpperSet == {UpperChars[i] : i \in 1..26}
LowerTable ==
  [c \in UpperSet |-> LowerChars[CHOOSE i \in 1..26 : UpperChars[i] = c]]

\* String.prototype.toLowerCase on one character
LowerChar(c) == IF c \in UpperSet THEN LowerTable[c] ELSE c

\* String.prototype.toLowerCase
ToLower(s) == [i \in 1..Len(s) |-> LowerChar(s[i])]

\* String.prototype.includes
Includes(s, p) ==
  \E i \in 1..(Len(s) - Len(p) + 1) : SubSeq(s, i, i + Len(p) - 1) = p

\* String(v) for a value that may be null (the empty sequence stands for
\* null/absent: `search.get(..) || hashParams.get(..) || null`)
StringOf(v) == IF v = <<>> THEN <<"n","u","l","l">> ELSE v

\* the alternatives of /access_denied|access-denied|denied|cancel/i
DenialPatterns ==
  { <<"a","c","c","e","s","s","_","d","e","n","i","e","d">>,
    <<"a","c","c","e","s","s","-","d","e","n","i","e","d">>,
    <<"d","e","n","i","e","d">>,
    <<"c","a","n","c","e","l">> }

\* (mutation: the regular expression without its /i flag)
DenialTestCaseSensitive(s) == \E p \in DenialPatterns : Includes(s, p)

\* /access_denied|access-denied|denied|cancel/i.test(s)
DenialTest(s) == \E p \in DenialPatterns : Includes(ToLower(s), p)

\* values of the `error` parameter tried in the query string and the fragment
ErrAccessDenied == <<"a","c","c","e","s","s","_","d","e","n","i","e","d">>
ErrUserCancelled == <<"U","s","e","r","_","C","a","n","c","e","l","l","e","d">>
ErrServerError == <<"s","e","r","v","e","r","_","e","r","r","o","r">>
ErrorSamples == { <<>>, ErrAccessDenied, ErrUserCancelled, ErrServerError }

(* ------------------------------------------------------------------ *)
(* State                                                               *)
(* ------------------------------------------------------------------ *)
VARIABLES
  \* --- the callback page: inputs fixed by the page load ---
  impl,          \* "runCheck" (pages/AuthCallback.jsx) or "finalize" (second source)
  configured,    \* getSupabase() returned a client
  searchError,   \* search.get('error')
  hashError,     \* hashParams.get('error')
  hasDesc,       \* an error_description parameter is present
  hasCode,       \* search.get('code') is a non-empty string
  hashAccess,    \* hashParams.get('access_token') present
  hashRefresh,   \* hashParams.get('refresh_token') present
  redirectGiven, \* a redirect parameter is present
  \* --- the callback page: React state and closure variables ---
  checking, timedOut, error, session,
  resolved,      \* waitForSession: `let resolved`
  unsubscribed,  \* finalize effect: `let unsubscribed`
  timerArmed,    \* a setTimeout is pending
  elapsed,       \* milliseconds since the pending timer was armed
  liveSubs,      \* auth-state-change listeners still subscribed
  pc,            \* position of the async function of the current run
  mounted,       \* the callback page is still rendered
  url,           \* window.location as left by history.replaceState
  \* --- observers of one run ---
  phase,         \* state of the session-establishment machine
  runs,          \* runs started on this page load
  exchangeCalls, setSessionCalls, getSessionCalls,
  cleanupCount,  \* cleanupUrl calls of the current run
  subsOpened,    \* onAuthStateChange subscriptions of the current run
  unsubCalls,    \* unsubscribe calls of the current run
  navCount,      \* navigate() calls of this page load
  sessionSeen,   \* a session reached the current run (getSession or event)
  softFailed,    \* exchangeCodeForSession/setSession failed in the current run
  \* --- AuthProvider: React state ---
  authSession,   \* `session`: the user id of the held session, "" for null
  user, role, loading, team, teamPersisted, teamLoading,
  \* --- AuthProvider: environment and positions ---
  stored,        \* localStorage['wr.selectedTeam']
  apiAvailable,  \* hasTeamApi().available
  initPc,        \* position of initSession
  initUser,      \* initSession: nextUser while its profile lookup is pending
  pending,       \* event handlers suspended in `await loadRoleFromProfiles`
  teamCall,      \* setTeamSelection suspended in `await apiSetUserTeam`
  providerMounted, \* the effect's `let mounted`: AuthProvider is not torn down
  \* --- observers of AuthProvider ---
  eventCount,    \* auth-state-change events delivered so far
  lastEvent,     \* user of the most recent event and what its handler published
  durable,       \* last team written durably; whether a pipeline run for a
                 \* signed-in user, started after the write, has finished
  lookupSeen,    \* the user and the profiles answer of the page-load run of
                 \* the pipeline when it finished in the step just taken
  selectionReturned, \* what setTeamSelection returned in the step just taken,
                 \* and the backend answer it had received
  \* --- backend proxy: environment of the build ---
  envApiBase,    \* process.env.REACT_APP_API_BASE
  envBackendUrl, \* process.env.REACT_APP_BACKEND_URL
  defaultBase,   \* the `fallback` of getApiBase (the second apiClient source
                 \* has none)
  \* --- backend proxy: the service call in progress ---
  svcOp,         \* the service function called
  svcArg,        \* its name / teamId argument
  svcPc,         \* position of the call
  pathIdx,       \* createTeam: index of `alt` in altPaths
  bodyIdx,       \* createTeam: index of `body` in payloads
  \* --- observers of one service call ---
  posts,         \* the POST requests sent, in order
  requests,      \* HTTP requests sent (any method)
  lastHttp,      \* HTTP status answered to the last POST of createTeam
  svcResult      \* what the call returned or threw

inputVars == <<impl, configured, searchError, hashError, hasDesc, hasCode,
               hashAccess, hashRefresh, redirectGiven>>
pageVars == <<checking, timedOut, error, session, resolved, unsubscribed,
              timerArmed, elapsed, liveSubs, pc, mounted, url>>
obsVars == <<phase, runs, exchangeCalls, setSessionCalls, getSessionCalls,
             cleanupCount, subsOpened, unsubCalls, navCount, sessionSeen,
             softFailed>>
callbackVars == <<inputVars, pageVars, obsVars>>

authVars == <<authSession, user, role, loading, team, teamPersisted,
              teamLoading, stored, apiAvailable, initPc, initUser, pending,
              teamCall, providerMounted, eventCount, lastEvent, durable,
              lookupSeen, selectionReturned>>

svcVars == <<envApiBase, envBackendUrl, defaultBase, svcOp, svcArg, svcPc,
             pathIdx, bodyIdx, posts, requests, lastHttp, svcResult>>

vars == <<callbackVars, authVars, svcVars>>

(* ------------------------------------------------------------------ *)
(* Redirect parameter parsing                                          *)
(* ------------------------------------------------------------------ *)
\* a || b on strings: the first non-empty one
OrElse(a, b) == IF a # <<>> THEN a ELSE b

\* (mutation: the parameters are parsed again from window.location, which
\* cleanupUrl has rewritten)
oauthErrorFromWindow ==
  IF url.error THEN OrElse(searchError, hashError) ELSE <<>>

\* const oauthError = search.get('error') || hashParams.get('error') || null
\* (from useLocation(), which history.replaceState does not change)
oauthError == OrElse(searchError, hashError)

\* const oauthErrorDesc = ... (only its presence matters)
oauthErrorDesc == hasDesc

\* const redirectParam = search.get('redirect') || hashParams.get('redirect') || '/reports/new'
redirectParam == IF redirectGiven THEN "/history" ELSE "/reports/new"

\* window.location as the provider redirect left it
LandingUrl ==
  [ path     |-> "/auth/callback",
    redirect |-> IF redirectGiven THEN "/history" ELSE "",
    code     |-> hasCode,
    tokens   |-> hashAccess \/ hashRefresh,
    error    |-> searchError # <<>> \/ hashError # <<>> \/ hasDesc,
    fragment |-> hashError # <<>> \/ hashAccess \/ hashRefresh ]

\* cleanupUrl: history.replaceState({}, '', '/auth/callback?redirect=...')
CleanUrl ==
  [ path     |-> "/auth/callback",
    redirect |-> redirectParam,
    code     |-> FALSE,
    tokens   |-> FALSE,
    error    |-> FALSE,
    fragment |-> FALSE ]

\* runCheck: if (oauthError || oauthErrorDesc) { if (/…/i.test(String(oauthError))) …
DeniedRunCheck ==
  (oauthError # <<>> \/ oauthErrorDesc) /\ DenialTest(StringOf(oauthError))

\* finalize: if (oauthError && /…/i.test(oauthError))
DeniedFinalize == oauthError # <<>> /\ DenialTest(oauthError)

Terminal == {"CONFIRMED", "TIMED_OUT", "DENIED", "CONFIG_MISSING"}

(* ------------------------------------------------------------------ *)
(* The callback page after construction                                *)
(* ------------------------------------------------------------------ *)
InitCallback ==
  /\ impl \in {"runCheck", "finalize"}
  /\ configured \in BOOLEAN
  /\ searchError \in ErrorSamples
  /\ hashError \in ErrorSamples
  /\ hasDesc \in BOOLEAN
  /\ hasCode \in BOOLEAN
  /\ hashAccess \in BOOLEAN
  /\ hashRefresh \in BOOLEAN
  /\ redirectGiven \in BOOLEAN
  \* useState(true), useState(false), useState(null), useState(null)
  /\ checking = TRUE
  /\ timedOut = FALSE
  /\ error = "none"
  /\ session = FALSE
  /\ resolved = FALSE
  /\ unsubscribed = FALSE
  /\ timerArmed = FALSE
  /\ elapsed = 0
  /\ liveSubs = 0
  /\ pc = "start"
  /\ mounted = TRUE
  /\ url = LandingUrl
  /\ phase = "PARSING"
  /\ runs = 0
  /\ exchangeCalls = 0
  /\ setSessionCalls = 0
  /\ getSessionCalls = 0
  /\ cleanupCount = 0
  /\ subsOpened = 0
  /\ unsubCalls = 0
  /\ navCount = 0
  /\ sessionSeen = FALSE
  /\ softFailed = FALSE
  \* AuthProvider is left out of the callback page's machine
  /\ authSession = "" /\ user = <<>> /\ role = <<>> /\ loading = TRUE
  /\ team = <<>> /\ teamPersisted = FALSE /\ teamLoading = TRUE
  /\ stored = <<>> /\ apiAvailable = FALSE /\ initPc = "absent"
  /\ initUser = <<>> /\ pending = <<>> /\ teamCall = <<>>
  /\ eventCount = 0 /\ lastEvent = <<>> /\ durable = <<>>
  /\ lookupSeen = <<>> /\ selectionReturned = <<>>
  /\ providerMounted = FALSE
  \* no service call is followed in the callback page's machine
  /\ envApiBase = <<>> /\ envBackendUrl = <<>> /\ defaultBase = <<>>
  /\ svcOp = "absent" /\ svcArg = <<>> /\ svcPc = "absent"
  /\ pathIdx = 0 /\ bodyIdx = 0 /\ posts = <<>> /\ requests = 0
  /\ lastHttp = 0 /\ svcResult = <<>>

(* ------------------------------------------------------------------ *)
(* pages/AuthCallback.jsx: runCheck, waitForSession, onRetry,          *)
(* onContinue                                                          *)
(* ------------------------------------------------------------------ *)
\* setTimeout(cb, 12000): the callback runs once the delay has passed
\* (mutation: the timer fires one clock step early)
TimerDueEarly == elapsed >= TimeoutMs - TickMs

TimerDue == elapsed >= TimeoutMs

\* runCheck up to its first suspension (await supabase.auth.getSession()
\* inside waitForSession) or its early return
RunCheck ==
  /\ runs' = runs + 1
  /\ exchangeCalls' = 0
  /\ setSessionCalls' = 0
  /\ subsOpened' = 0
  /\ unsubCalls' = 0
  /\ sessionSeen' = FALSE
  /\ softFailed' = FALSE
  /\ IF ~configured
       THEN /\ checking' = FALSE
            /\ session' = FALSE
            /\ timedOut' = TRUE
            /\ error' = "config"
            /\ phase' = "CONFIG_MISSING"
            /\ pc' = "done"
            /\ getSessionCalls' = 0
            /\ cleanupCount' = 0
            /\ UNCHANGED url
       ELSE IF DeniedRunCheck
         THEN /\ checking' = FALSE
              /\ session' = FALSE
              /\ timedOut' = TRUE
              /\ error' = "denied"
              /\ phase' = "DENIED"
              /\ pc' = "done"
              /\ getSessionCalls' = 0
              /\ cleanupCount' = 1
              /\ url' = CleanUrl
         ELSE /\ checking' = TRUE
              /\ timedOut' = FALSE
              /\ error' = "none"
              /\ phase' = "WAITING"
              /\ pc' = "getSession"
              /\ getSessionCalls' = 1
              /\ cleanupCount' = 1
              /\ url' = CleanUrl
              /\ UNCHANGED session
  /\ UNCHANGED <<authVars, svcVars, inputVars, resolved, unsubscribed, timerArmed, elapsed,
                 liveSubs, mounted, navCount>>

\* React.useEffect(() => { runCheck(); }, [])
MountRunCheck ==
  /\ impl = "runCheck"
  /\ pc = "start"
  /\ RunCheck

\* (mutation: the diagnostics panel has lost its Retry button)
RetryVisibleEdgeOnly == ~checking /\ ~timedOut /\ ~session

\* the Retry buttons are rendered
RetryVisible ==
  /\ ~checking
  /\ \/ timedOut \/ ~configured \/ error # "none"
     \/ (~timedOut /\ ~session)

\* const retryHref = `/login?redirect=${encodeURIComponent(redirectParam)}`
retryHref == [path |-> "/login", redirect |-> redirectParam]

\* an <a href={retryHref}>Back to Login</a> is rendered
BackToLoginVisible ==
  /\ ~checking
  /\ \/ timedOut \/ ~configured \/ error # "none"
     \/ (~timedOut /\ ~session)

\* onRetry
OnRetry ==
  /\ impl = "runCheck"
  /\ mounted
  /\ RetryVisible
  /\ runs < MaxRuns
  /\ RunCheck

\* the continuation of runCheck after `const sess = await waitForSession(12000)`
RunCheckResume(sess) ==
  /\ checking' = FALSE
  /\ timedOut' = ~sess
  /\ error' = IF sess THEN "none" ELSE "timeout"
  /\ phase' = IF sess THEN "CONFIRMED" ELSE "TIMED_OUT"
  /\ pc' = "done"

\* waitForSession, from the return of getSession() on
GetSessionReturnsRunCheck(r) ==
  /\ impl = "runCheck"
  /\ pc = "getSession"
  /\ IF r = "session"
       THEN /\ session' = TRUE
            /\ sessionSeen' = TRUE
            /\ RunCheckResume(TRUE)
            /\ UNCHANGED <<resolved, timerArmed, elapsed, liveSubs, subsOpened>>
       ELSE \* null session, or getSession threw (then setSession is skipped)
            /\ session' = IF r = "null" THEN FALSE ELSE session
            /\ resolved' = FALSE
            /\ timerArmed' = TRUE
            /\ elapsed' = 0
            /\ liveSubs' = liveSubs + 1
            /\ subsOpened' = subsOpened + 1
            /\ pc' = "waiting"
            /\ UNCHANGED <<checking, timedOut, error, phase, sessionSeen>>
  /\ UNCHANGED <<authVars, svcVars, inputVars, unsubscribed, mounted, url, runs, exchangeCalls,
                 setSessionCalls, getSessionCalls, cleanupCount, unsubCalls,
                 navCount, softFailed>>

\* the onAuthStateChange callback of waitForSession
AuthEventRunCheck(newSession) ==
  /\ impl = "runCheck"
  /\ liveSubs > 0
  /\ IF ~resolved /\ newSession
       THEN /\ timerArmed' = FALSE
            /\ resolved' = TRUE
            /\ session' = TRUE
            /\ sessionSeen' = TRUE
            \* resolve = (v) => { cleanup(); origResolve(v); }
            /\ liveSubs' = liveSubs - 1
            /\ unsubCalls' = unsubCalls + 1
            /\ RunCheckResume(TRUE)
       ELSE UNCHANGED <<timerArmed, resolved, session, sessionSeen, liveSubs,
                        unsubCalls, checking, timedOut, error, phase, pc>>
  /\ UNCHANGED <<authVars, svcVars, inputVars, unsubscribed, elapsed, mounted, url, runs,
                 exchangeCalls, setSessionCalls, getSessionCalls, cleanupCount,
                 subsOpened, navCount, softFailed>>

\* the setTimeout callback of waitForSession
TimeoutRunCheck ==
  /\ impl = "runCheck"
  /\ timerArmed
  /\ TimerDue
  /\ timerArmed' = FALSE
  /\ IF resolved
       THEN UNCHANGED <<resolved, liveSubs, unsubCalls, checking, timedOut,
                        error, phase, pc>>
       ELSE /\ resolved' = TRUE
            /\ liveSubs' = liveSubs - 1
            /\ unsubCalls' = unsubCalls + 1
            /\ RunCheckResume(FALSE)
  /\ UNCHANGED <<authVars, svcVars, inputVars, session, unsubscribed, elapsed, mounted, url, runs,
                 exchangeCalls, setSessionCalls, getSessionCalls, cleanupCount,
                 subsOpened, navCount, sessionSeen, softFailed>>

\* a Continue button is rendered
ContinueVisible ==
  /\ ~checking
  /\ \/ timedOut \/ ~configured \/ error # "none"
     \/ (~timedOut /\ session)

\* onContinue
OnContinue ==
  /\ impl = "runCheck"
  /\ mounted
  /\ ContinueVisible
  /\ IF ~session
       THEN UNCHANGED <<navCount, mounted>>
       ELSE /\ navCount' = navCount + 1
            /\ mounted' = FALSE
  /\ UNCHANGED <<authVars, svcVars, inputVars, checking, timedOut, error, session, resolved,
                 unsubscribed, timerArmed, elapsed, liveSubs, pc, url, phase,
                 runs, exchangeCalls, setSessionCalls, getSessionCalls,
                 cleanupCount, subsOpened, unsubCalls, sessionSeen, softFailed>>

\* time passes while a timer is pending
Tick ==
  /\ timerArmed
  /\ elapsed < TimeoutMs
  /\ elapsed' = elapsed + TickMs
  /\ UNCHANGED <<authVars, svcVars, inputVars, checking, timedOut, error, session, resolved,
                 unsubscribed, timerArmed, liveSubs, pc, mounted, url, obsVars>>

(* ------------------------------------------------------------------ *)
(* second AuthCallback source: the effect running finalize             *)
(* ------------------------------------------------------------------ *)
\* (mutation: one implicit-flow token is taken to be enough)
ImplicitTokensEither == hashAccess \/ hashRefresh

\* parseImplicitTokens: if (access_token && refresh_token)
ImplicitTokensPresent == hashAccess /\ hashRefresh

\* const hasCode = typeof code === 'string' && code.length > 0
CodePresent == hasCode

\* One execution of the effect is followed from finalize() to the unmount
\* of the page; React executing the effect again after a re-render is not
\* part of this machine.
\* finalize up to its first suspension or its early return
MountFinalize ==
  /\ impl = "finalize"
  /\ pc = "start"
  /\ runs' = runs + 1
  /\ IF ~configured
       THEN /\ error' = "config"
            /\ checking' = FALSE
            /\ phase' = "CONFIG_MISSING"
            /\ pc' = "done"
            /\ UNCHANGED <<url, cleanupCount, exchangeCalls, setSessionCalls,
                           getSessionCalls>>
       ELSE IF DeniedFinalize
         THEN /\ checking' = FALSE
              /\ error' = "denied"
              /\ url' = CleanUrl
              /\ cleanupCount' = cleanupCount + 1
              /\ phase' = "DENIED"
              /\ pc' = "done"
              /\ UNCHANGED <<exchangeCalls, setSessionCalls, getSessionCalls>>
         ELSE /\ UNCHANGED <<checking, error, url, cleanupCount>>
              /\ IF CodePresent
                   THEN \* await supabase.auth.exchangeCodeForSession(href)
                        /\ exchangeCalls' = exchangeCalls + 1
                        /\ phase' = "EXCHANGING"
                        /\ pc' = "exchange"
                        /\ UNCHANGED <<setSessionCalls, getSessionCalls>>
                   ELSE IF ImplicitTokensPresent
                     THEN \* await supabase.auth.setSession({...})
                          /\ setSessionCalls' = setSessionCalls + 1
                          /\ phase' = "EXCHANGING"
                          /\ pc' = "setSession"
                          /\ UNCHANGED <<exchangeCalls, getSessionCalls>>
                     ELSE \* await supabase.auth.getSession()
                          /\ getSessionCalls' = getSessionCalls + 1
                          /\ phase' = "WAITING"
                          /\ pc' = "getSession"
                          /\ UNCHANGED <<exchangeCalls, setSessionCalls>>
  /\ UNCHANGED <<authVars, svcVars, inputVars, timedOut, session, resolved, unsubscribed,
                 timerArmed, elapsed, liveSubs, mounted, subsOpened,
                 unsubCalls, navCount, sessionSeen, softFailed>>

\* (mutation: a failed exchange or token set ends the run at once)
ExchangeReturnsAbort(r) ==
  /\ impl = "finalize"
  /\ pc \in {"exchange", "setSession"}
  /\ error' = IF r = "ok" THEN error ELSE "soft"
  /\ softFailed' = (r # "ok")
  /\ getSessionCalls' = IF r = "ok" THEN getSessionCalls + 1 ELSE getSessionCalls
  /\ checking' = (r = "ok")
  /\ phase' = IF r = "ok" THEN "WAITING" ELSE "FAILED"
  /\ pc' = IF r = "ok" THEN "getSession" ELSE "done"
  /\ UNCHANGED <<authVars, svcVars, inputVars, timedOut, session, resolved,
                 unsubscribed, timerArmed, elapsed, liveSubs, mounted, url,
                 runs, exchangeCalls, setSessionCalls, cleanupCount,
                 subsOpened, unsubCalls, navCount, sessionSeen>>

\* exchangeCodeForSession or setSession returns ("ok", "error") or throws;
\* either way finalize goes on to await supabase.auth.getSession()
ExchangeReturns(r) ==
  /\ impl = "finalize"
  /\ pc \in {"exchange", "setSession"}
  /\ error' = IF r = "ok" THEN error ELSE "soft"
  /\ softFailed' = (r # "ok")
  /\ getSessionCalls' = getSessionCalls + 1
  /\ phase' = "WAITING"
  /\ pc' = "getSession"
  /\ UNCHANGED <<authVars, svcVars, inputVars, checking, timedOut, session, resolved,
                 unsubscribed, timerArmed, elapsed, liveSubs, mounted, url,
                 runs, exchangeCalls, setSessionCalls, cleanupCount,
                 subsOpened, unsubCalls, navCount, sessionSeen>>

\* the cleanup returned by the effect: unsubscribed = true; clearTimeout
EffectCleanup ==
  /\ unsubscribed' = TRUE
  /\ timerArmed' = FALSE

\* navigate(redirectParam, { replace: true }): the router leaves the
\* callback route, the page is unmounted and its effect cleanup runs
Navigate ==
  /\ navCount' = navCount + 1
  /\ mounted' = FALSE
  /\ EffectCleanup

\* finalize from the return of getSession() on
GetSessionReturnsFinalize(r) ==
  /\ impl = "finalize"
  /\ pc = "getSession"
  /\ IF r = "session"
       THEN /\ sessionSeen' = TRUE
            /\ url' = CleanUrl
            /\ cleanupCount' = cleanupCount + 1
            /\ IF ~unsubscribed
                 THEN Navigate
                 ELSE UNCHANGED <<navCount, mounted, unsubscribed, timerArmed>>
            /\ phase' = "CONFIRMED"
            /\ pc' = "done"
            /\ UNCHANGED <<checking, error, liveSubs, subsOpened, elapsed>>
       ELSE IF r = "null"
         THEN \* onAuthStateChange(...); timeoutId = setTimeout(..., 12000)
              /\ liveSubs' = liveSubs + 1
              /\ subsOpened' = subsOpened + 1
              /\ timerArmed' = TRUE
              /\ elapsed' = 0
              /\ pc' = "waiting"
              /\ UNCHANGED <<sessionSeen, url, cleanupCount, navCount, mounted,
                             unsubscribed, phase, checking, error>>
         ELSE \* getSession threw: the outer catch
              /\ error' = "unexpected"
              /\ checking' = FALSE
              /\ url' = CleanUrl
              /\ cleanupCount' = cleanupCount + 1
              /\ phase' = "FAILED"
              /\ pc' = "done"
              /\ UNCHANGED <<sessionSeen, navCount, mounted, unsubscribed,
                             timerArmed, elapsed, liveSubs, subsOpened>>
  /\ UNCHANGED <<authVars, svcVars, inputVars, timedOut, session, resolved, runs, exchangeCalls,
                 setSessionCalls, getSessionCalls, unsubCalls, softFailed>>

\* (mutation: the listener without its `if (unsubscribed) return`)
AuthEventFinalizeUnguarded(newSession) ==
  /\ impl = "finalize"
  /\ liveSubs > 0
  /\ IF newSession
       THEN /\ sessionSeen' = TRUE
            /\ url' = CleanUrl
            /\ cleanupCount' = cleanupCount + 1
            /\ Navigate
            /\ phase' = "CONFIRMED"
       ELSE UNCHANGED <<sessionSeen, url, cleanupCount, navCount, mounted,
                        unsubscribed, timerArmed, phase>>
  /\ UNCHANGED <<authVars, svcVars, inputVars, checking, timedOut, error, session, resolved,
                 elapsed, liveSubs, pc, runs, exchangeCalls, setSessionCalls,
                 getSessionCalls, subsOpened, unsubCalls, softFailed>>

\* the onAuthStateChange callback registered by finalize
AuthEventFinalize(newSession) ==
  /\ impl = "finalize"
  /\ liveSubs > 0
  /\ IF ~unsubscribed /\ newSession
       THEN /\ sessionSeen' = TRUE
            /\ url' = CleanUrl
            /\ cleanupCount' = cleanupCount + 1
            /\ Navigate
            /\ phase' = "CONFIRMED"
       ELSE UNCHANGED <<sessionSeen, url, cleanupCount, navCount, mounted,
                        unsubscribed, timerArmed, phase>>
  /\ UNCHANGED <<authVars, svcVars, inputVars, checking, timedOut, error, session, resolved,
                 elapsed, liveSubs, pc, runs, exchangeCalls, setSessionCalls,
                 getSessionCalls, subsOpened, unsubCalls, softFailed>>

\* the setTimeout callback registered by finalize
TimeoutFinalize ==
  /\ impl = "finalize"
  /\ timerArmed
  /\ TimerDue
  /\ timerArmed' = FALSE
  /\ IF unsubscribed
       THEN UNCHANGED <<checking, error, url, cleanupCount, phase>>
       ELSE /\ checking' = FALSE
            /\ error' = "timeout"
            /\ url' = CleanUrl
            /\ cleanupCount' = cleanupCount + 1
            /\ phase' = "TIMED_OUT"
  /\ UNCHANGED <<authVars, svcVars, inputVars, timedOut, session, resolved, unsubscribed, elapsed,
                 liveSubs, pc, mounted, runs, exchangeCalls, setSessionCalls,
                 getSessionCalls, subsOpened, unsubCalls, navCount,
                 sessionSeen, softFailed>>

(* ------------------------------------------------------------------ *)
(* The callback page as a state machine                                *)
(* ------------------------------------------------------------------ *)
NextCallback ==
  \/ MountRunCheck
  \/ OnRetry
  \/ \E r \in {"session", "null", "throws"} : GetSessionReturnsRunCheck(r)
  \/ \E s \in BOOLEAN : AuthEventRunCheck(s)
  \/ TimeoutRunCheck
  \/ OnContinue
  \/ Tick
  \/ MountFinalize
  \/ \E r \in {"ok", "error", "throws"} : ExchangeReturns(r)
  \/ \E r \in {"session", "null", "throws"} : GetSessionReturnsFinalize(r)
  \/ \E s \in BOOLEAN : AuthEventFinalize(s)
  \/ TimeoutFinalize

SpecCallback == InitCallback /\ [][NextCallback]_vars

\* the steps the page takes by itself: the mount effect, the continuations of
\* the awaited identity-provider calls, the clock and the timer callbacks
SystemStep ==
  \/ MountRunCheck
  \/ \E r \in {"session", "null", "throws"} : GetSessionReturnsRunCheck(r)
  \/ TimeoutRunCheck
  \/ Tick
  \/ MountFinalize
  \/ \E r \in {"ok", "error", "throws"} : ExchangeReturns(r)
  \/ \E r \in {"session", "null", "throws"} : GetSessionReturnsFinalize(r)
  \/ TimeoutFinalize

\* every awaited call returns or throws, time passes and a due timer fires
SpecCallbackFair == SpecCallback /\ WF_vars(SystemStep)

(* ------------------------------------------------------------------ *)
(* AuthProvider: users, roles and teams                                *)
(* ------------------------------------------------------------------ *)
RoleAdmin == <<"a","d","m","i","n">>
RoleManager == <<"m","a","n","a","g","e","r">>
RoleEmployee == <<"e","m","p","l","o","y","e","e">>
\* role === 'admin' || role === 'manager' || role === 'employee'
ValidRoles == {RoleAdmin, RoleManager, RoleEmployee}
\* null role
NullRole == <<>>

\* null team
NoTeam == [id |-> "", name |-> ""]

\* null user / null session
NoUser == [id |-> "", email |-> <<>>, appRole |-> <<>>, metaRole |-> <<>>,
           appTeam |-> "", metaTeam |-> "", teamName |-> ""]

\* users the identity provider hands out
UserAppAdmin ==
  [id |-> "u1", email |-> <<"a","@","x",".","c","o","m">>,
   appRole |-> RoleAdmin, metaRole |-> RoleEmployee,
   appTeam |-> "t1", metaTeam |-> "", teamName |-> ""]
UserPlainLead ==
  [id |-> "u2", email |-> <<"T","e","a","m","L","e","a","d","@","x",".","c","o","m">>,
   appRole |-> <<>>, metaRole |-> <<>>,
   appTeam |-> "", metaTeam |-> "", teamName |-> ""]
UserMetaManager ==
  [id |-> "u3", email |-> <<"b","@","x",".","c","o","m">>,
   appRole |-> <<>>, metaRole |-> <<" ","M","a","n","a","g","e","r">>,
   appTeam |-> "", metaTeam |-> "t2", teamName |-> "Beta"]
SampleUsers == {UserAppAdmin, UserPlainLead, UserMetaManager}

\* further users a restored session may carry at page load
UserBadAppRole ==
  [id |-> "u4", email |-> <<"c","@","x",".","c","o","m">>,
   appRole |-> <<"o","w","n","e","r">>, metaRole |-> RoleManager,
   appTeam |-> "", metaTeam |-> "", teamName |-> ""]
UserAdminLeadMail ==
  [id |-> "u5", email |-> <<"a","d","m","i","n",".","l","e","a","d","@","x",".","c","o","m">>,
   appRole |-> <<>>, metaRole |-> <<>>,
   appTeam |-> "t5", metaTeam |-> "t6", teamName |-> "Six"]
UserPlainMail ==
  [id |-> "u6", email |-> <<"d","@","x",".","c","o","m">>,
   appRole |-> <<>>, metaRole |-> <<"g","u","e","s","t">>,
   appTeam |-> "", metaTeam |-> "", teamName |-> ""]
UserManagerMail ==
  [id |-> "u7", email |-> <<"m","a","n","a","g","e","r","@","x",".","c","o","m">>,
   appRole |-> <<>>, metaRole |-> <<>>,
   appTeam |-> "", metaTeam |-> "", teamName |-> ""]
SessionUsers ==
  SampleUsers \cup {UserBadAppRole, UserAdminLeadMail, UserPlainMail, UserManagerMail}

\* answers of the profiles query: an error object, an exception, or a row
ProfileResponses ==
  {[kind |-> "error", role |-> <<>>, teamId |-> "", teamName |-> ""],
   [kind |-> "throws", role |-> <<>>, teamId |-> "", teamName |-> ""]}
  \cup
  [kind : {"row"},
   role : {<<>>, <<"M","a","n","a","g","e","r"," ">>, <<"o","w","n","e","r">>},
   teamId : {"", "t3"},
   teamName : {""}]

\* teams offered by the team selector
SelectableTeams == {[id |-> "t1", name |-> "Alpha"], [id |-> "t4", name |-> ""]}

\* contents of localStorage['wr.selectedTeam'] at page load
StoredAtLoad == {NoTeam, [id |-> "t9", name |-> "Old"]}

RECURSIVE TrimStart(_)
\* String.prototype.trimStart
TrimStart(s) ==
  IF s # <<>> /\ Head(s) = " " THEN TrimStart(Tail(s)) ELSE s

RECURSIVE TrimEnd(_)
\* String.prototype.trimEnd
TrimEnd(s) ==
  IF s # <<>> /\ s[Len(s)] = " " THEN TrimEnd(SubSeq(s, 1, Len(s) - 1)) ELSE s

\* String.prototype.trim
Trim(s) == TrimEnd(TrimStart(s))

\* String.prototype.endsWith
EndsWith(s, p) ==
  Len(s) >= Len(p) /\ SubSeq(s, Len(s) - Len(p) + 1, Len(s)) = p

\* (mutation: the manager patterns are tried before the admin patterns)
deriveRoleFromUserManagerFirst(u) ==
  IF u = NoUser THEN NullRole
  ELSE
    LET r == Trim(ToLower(OrElse(u.appRole, u.metaRole)))
        email == ToLower(u.email)
    IN IF r \in ValidRoles THEN r
       ELSE IF \/ Includes(email, RoleManager)
               \/ Includes(email, <<"l","e","a","d">>)
               \/ EndsWith(email, <<"+","m","a","n","a","g","e","r","@","t","e","s","t",".","c","o","m">>)
         THEN RoleManager
       ELSE IF \/ Includes(email, RoleAdmin)
               \/ EndsWith(email, <<"+","a","d","m","i","n","@","t","e","s","t",".","c","o","m">>)
         THEN RoleAdmin
       ELSE RoleEmployee

\* deriveRoleFromUser
deriveRoleFromUser(u) ==
  IF u = NoUser THEN NullRole
  ELSE
    LET r == Trim(ToLower(OrElse(u.appRole, u.metaRole)))
        email == ToLower(u.email)
    IN IF r \in ValidRoles THEN r
       ELSE IF \/ Includes(email, RoleAdmin)
               \/ EndsWith(email, <<"+","a","d","m","i","n","@","t","e","s","t",".","c","o","m">>)
         THEN RoleAdmin
       ELSE IF \/ Includes(email, RoleManager)
               \/ Includes(email, <<"l","e","a","d">>)
               \/ EndsWith(email, <<"+","m","a","n","a","g","e","r","@","t","e","s","t",".","c","o","m">>)
         THEN RoleManager
       ELSE RoleEmployee

\* (mutation: the profile role is taken without the validity check)
loadRoleFromProfilesUnchecked(resp) ==
  IF resp.kind # "row"
    THEN [role |-> NullRole, team |-> NoTeam]
    ELSE [role |-> Trim(ToLower(resp.role)),
          team |-> IF resp.teamId # ""
                     THEN [id |-> resp.teamId, name |-> resp.teamName]
                     ELSE NoTeam]

\* loadRoleFromProfiles, from the answer of the profiles query on
loadRoleFromProfiles(resp) ==
  IF resp.kind # "row"
    THEN [role |-> NullRole, team |-> NoTeam]
    ELSE LET pRole == Trim(ToLower(resp.role))
         IN [role |-> IF pRole # <<>> /\ pRole \in ValidRoles THEN pRole ELSE NullRole,
             team |-> IF resp.teamId # ""
                        THEN [id |-> resp.teamId, name |-> resp.teamName]
                        ELSE NoTeam]

\* if (profileRole && profileRole !== initialRole) setRole(profileRole);
\* otherwise the role state is left as it is
RefinedRole(current, initialRole, profileRole) ==
  IF profileRole # NullRole /\ profileRole # initialRole
    THEN profileRole ELSE current

\* (mutation: user_metadata.team_id is read before app_metadata.team_id)
metaTeamIdUserFirst(u) == IF u.metaTeam # "" THEN u.metaTeam ELSE u.appTeam

\* app_metadata.team_id || user_metadata.team_id || null
metaTeamId(u) == IF u.appTeam # "" THEN u.appTeam ELSE u.metaTeam

\* (mutation: the cached selection is published as persisted)
ResolveTeamCachePersisted(u, profileTeam, lsTeam) ==
  IF metaTeamId(u) # ""
    THEN [team |-> [id |-> metaTeamId(u), name |-> u.teamName], persisted |-> TRUE]
    ELSE IF profileTeam # NoTeam
      THEN [team |-> profileTeam, persisted |-> TRUE]
      ELSE [team |-> lsTeam, persisted |-> TRUE]

\* the team branch of the pipeline: [team, persisted]
ResolveTeam(u, profileTeam, lsTeam) ==
  IF metaTeamId(u) # ""
    THEN [team |-> [id |-> metaTeamId(u), name |-> u.teamName], persisted |-> TRUE]
    ELSE IF profileTeam # NoTeam
      THEN [team |-> profileTeam, persisted |-> TRUE]
      ELSE [team |-> lsTeam, persisted |-> FALSE]

\* no profiles answer observed
NoLookup == [user |-> NoUser,
             resp |-> [kind |-> "none", role |-> <<>>, teamId |-> "", teamName |-> ""]]

\* no setTeamSelection call has returned
NoReturn == [resp |-> "none", persisted |-> FALSE]

(* ------------------------------------------------------------------ *)
(* AuthProvider after construction                                     *)
(* ------------------------------------------------------------------ *)
AuthState ==
  /\ authSession = ""
  /\ user = NoUser
  /\ role = NullRole
  /\ loading = TRUE
  /\ team = NoTeam
  /\ teamPersisted = FALSE
  /\ teamLoading = TRUE
  /\ initUser = NoUser
  /\ pending = <<>>
  /\ teamCall = NoTeam
  /\ providerMounted = TRUE
  /\ eventCount = 0
  /\ lastEvent = [user |-> NoUser, role |-> NullRole, team |-> NoTeam,
                  persisted |-> FALSE]
  /\ durable = [team |-> NoTeam, ran |-> FALSE]
  /\ lookupSeen = NoLookup
  /\ selectionReturned = NoReturn

\* the callback page is not rendered
CallbackAbsent ==
  /\ impl = "none"
  /\ searchError = <<>> /\ hashError = <<>>
  /\ hasDesc = FALSE /\ hasCode = FALSE
  /\ hashAccess = FALSE /\ hashRefresh = FALSE /\ redirectGiven = FALSE
  /\ checking = TRUE /\ timedOut = FALSE /\ error = "none" /\ session = FALSE
  /\ resolved = FALSE /\ unsubscribed = FALSE /\ timerArmed = FALSE
  /\ elapsed = 0 /\ liveSubs = 0 /\ pc = "start" /\ mounted = FALSE
  /\ url = [path |-> "/", redirect |-> "", code |-> FALSE, tokens |-> FALSE,
            error |-> FALSE, fragment |-> FALSE]
  /\ phase = "PARSING" /\ runs = 0 /\ exchangeCalls = 0
  /\ setSessionCalls = 0 /\ getSessionCalls = 0 /\ cleanupCount = 0
  /\ subsOpened = 0 /\ unsubCalls = 0 /\ navCount = 0
  /\ sessionSeen = FALSE /\ softFailed = FALSE

\* no service call is followed
ServiceAbsent ==
  /\ envApiBase = <<>> /\ envBackendUrl = <<>> /\ defaultBase = <<>>
  /\ svcOp = "absent" /\ svcArg = <<>> /\ svcPc = "absent"
  /\ pathIdx = 0 /\ bodyIdx = 0 /\ posts = <<>> /\ requests = 0
  /\ lastHttp = 0 /\ svcResult = <<>>

InitAuth ==
  /\ configured \in BOOLEAN
  /\ apiAvailable \in BOOLEAN
  /\ stored \in StoredAtLoad
  /\ initPc = "start"
  /\ AuthState
  /\ CallbackAbsent
  /\ ServiceAbsent

(* ------------------------------------------------------------------ *)
(* AuthProvider: initSession                                           *)
(* ------------------------------------------------------------------ *)
\* initSession up to `await supabase.auth.getSession()`, or all of it when
\* Supabase is not configured
InitSessionStart ==
  /\ impl = "none"
  /\ initPc = "start"
  /\ IF ~configured
       THEN /\ authSession' = ""
            /\ user' = NoUser
            /\ role' = NullRole
            /\ loading' = FALSE
            /\ team' = stored
            /\ teamPersisted' = FALSE
            /\ teamLoading' = FALSE
            /\ initPc' = "done"
       ELSE /\ initPc' = "getSession"
            /\ UNCHANGED <<authSession, user, role, loading, team,
                           teamPersisted, teamLoading>>
  /\ lookupSeen' = NoLookup
  /\ selectionReturned' = NoReturn
  /\ UNCHANGED <<callbackVars, svcVars, providerMounted, stored, apiAvailable, initUser, pending,
                 teamCall, eventCount, lastEvent, durable>>

\* initSession from the return of getSession() to the profile lookup, or to
\* the subscription when there is no user; `threw` is the catch branch
InitSessionGetSession(nextUser, threw) ==
  /\ impl = "none"
  /\ initPc = "getSession"
  /\ IF threw
       THEN \* catch: if (mounted) { setLoading(false); setTeamLoading(false); }
            /\ loading' = IF providerMounted THEN FALSE ELSE loading
            /\ teamLoading' = IF providerMounted THEN FALSE ELSE teamLoading
            /\ initPc' = "failed"
            /\ UNCHANGED <<authSession, user, role, team, teamPersisted,
                           initUser, durable>>
       ELSE IF ~providerMounted
         THEN \* `if (mounted)` is skipped; the subscription is still made
              /\ initPc' = "subscribed"
              /\ UNCHANGED <<authSession, user, role, loading, team,
                             teamPersisted, teamLoading, initUser, durable>>
       ELSE /\ authSession' = nextUser.id
            /\ user' = nextUser
            /\ role' = deriveRoleFromUser(nextUser)
            /\ loading' = FALSE
            /\ IF nextUser # NoUser
                 THEN /\ initUser' = nextUser
                      /\ initPc' = "lookup"
                      /\ UNCHANGED <<team, teamPersisted, teamLoading, durable>>
                 ELSE LET rt == ResolveTeam(nextUser, NoTeam, stored)
                      IN /\ team' = rt.team
                         /\ teamPersisted' = rt.persisted
                         /\ teamLoading' = FALSE
                         /\ initPc' = "subscribed"
                         /\ UNCHANGED <<initUser, durable>>
  /\ lookupSeen' = NoLookup
  /\ selectionReturned' = NoReturn
  /\ UNCHANGED <<callbackVars, svcVars, providerMounted, stored, apiAvailable, pending, teamCall,
                 eventCount, lastEvent>>

\* initSession from the return of loadRoleFromProfiles to the subscription
InitSessionLookupReturns(resp) ==
  /\ impl = "none"
  /\ initPc = "lookup"
  /\ LET fp == loadRoleFromProfiles(resp)
         rt == ResolveTeam(initUser, fp.team, stored)
     IN /\ role' = RefinedRole(role, deriveRoleFromUser(initUser), fp.role)
        /\ team' = rt.team
        /\ teamPersisted' = rt.persisted
  /\ teamLoading' = FALSE
  /\ initPc' = "subscribed"
  /\ initUser' = NoUser
  /\ lookupSeen' = [user |-> initUser, resp |-> resp]
  /\ selectionReturned' = NoReturn
  /\ UNCHANGED <<callbackVars, svcVars, providerMounted, authSession, user, loading, stored,
                 apiAvailable, pending, teamCall, eventCount, lastEvent,
                 durable>>

(* ------------------------------------------------------------------ *)
(* AuthProvider: the onAuthStateChange handler                         *)
(* ------------------------------------------------------------------ *)
\* the handler up to `await loadRoleFromProfiles`, or all of it when the
\* event carries no session
AuthEvent(currentUser) ==
  /\ impl = "none"
  /\ initPc = "subscribed"
  /\ eventCount < MaxEvents
  /\ Len(pending) < MaxPending
  /\ eventCount' = eventCount + 1
  /\ lookupSeen' = NoLookup
  /\ selectionReturned' = NoReturn
  /\ authSession' = currentUser.id
  /\ user' = currentUser
  /\ role' = deriveRoleFromUser(currentUser)
  /\ IF currentUser # NoUser
       THEN /\ pending' = Append(pending,
                            [user |-> currentUser, seq |-> eventCount + 1,
                             afterWrite |-> durable.team # NoTeam])
            /\ lastEvent' = [user |-> currentUser,
                             role |-> deriveRoleFromUser(currentUser),
                             team |-> team, persisted |-> teamPersisted]
            /\ UNCHANGED <<team, teamPersisted, teamLoading, durable>>
       ELSE LET rt == ResolveTeam(currentUser, NoTeam, stored)
            IN /\ team' = rt.team
               /\ teamPersisted' = rt.persisted
               /\ teamLoading' = FALSE
               /\ lastEvent' = [user |-> currentUser, role |-> NullRole,
                                team |-> rt.team, persisted |-> rt.persisted]
               /\ UNCHANGED <<pending, durable>>
  /\ UNCHANGED <<callbackVars, svcVars, providerMounted, loading, stored, apiAvailable, initPc,
                 initUser, teamCall>>

\* a sequence without its i-th element
RemoveAt(q, i) == SubSeq(q, 1, i - 1) \o SubSeq(q, i + 1, Len(q))

\* (mutation: a run that publishes the cached selection removes it from the
\* cache)
LookupReturnsConsumesCache(i, resp) ==
  /\ impl = "none"
  /\ i \in 1..Len(pending)
  /\ LET h == pending[i]
         initialRole2 == deriveRoleFromUser(h.user)
         fp == loadRoleFromProfiles(resp)
         rt == ResolveTeam(h.user, fp.team, stored)
     IN /\ role' = RefinedRole(role, initialRole2, fp.role)
        /\ team' = rt.team
        /\ teamPersisted' = rt.persisted
        /\ lastEvent' = IF h.seq = eventCount
                          THEN [user |-> h.user,
                                role |-> RefinedRole(initialRole2, initialRole2, fp.role),
                                team |-> rt.team, persisted |-> rt.persisted]
                          ELSE lastEvent
        /\ durable' = [durable EXCEPT !.ran = @ \/ h.afterWrite]
  /\ teamLoading' = FALSE
  /\ stored' = IF teamPersisted' THEN stored ELSE NoTeam
  /\ pending' = RemoveAt(pending, i)
  /\ lookupSeen' = NoLookup
  /\ selectionReturned' = NoReturn
  /\ UNCHANGED <<callbackVars, svcVars, providerMounted, authSession, user, loading,
                 apiAvailable, initPc, initUser, teamCall, eventCount>>

\* the i-th suspended handler resumes with the answer of its profile lookup
LookupReturns(i, resp) ==
  /\ impl = "none"
  /\ i \in 1..Len(pending)
  /\ LET h == pending[i]
         initialRole2 == deriveRoleFromUser(h.user)
         fp == loadRoleFromProfiles(resp)
         rt == ResolveTeam(h.user, fp.team, stored)
     IN /\ role' = RefinedRole(role, initialRole2, fp.role)
        /\ team' = rt.team
        /\ teamPersisted' = rt.persisted
        /\ lastEvent' = IF h.seq = eventCount
                          THEN [user |-> h.user,
                                role |-> RefinedRole(initialRole2, initialRole2, fp.role),
                                team |-> rt.team, persisted |-> rt.persisted]
                          ELSE lastEvent
        /\ durable' = [durable EXCEPT !.ran = @ \/ h.afterWrite]
  /\ teamLoading' = FALSE
  /\ pending' = RemoveAt(pending, i)
  /\ lookupSeen' = NoLookup
  /\ selectionReturned' = NoReturn
  /\ UNCHANGED <<callbackVars, svcVars, providerMounted, authSession, user, loading, stored,
                 apiAvailable, initPc, initUser, teamCall, eventCount>>

(* ------------------------------------------------------------------ *)
(* AuthProvider: setTeamSelection and clearTeamSelection               *)
(* ------------------------------------------------------------------ *)
\* the local-only fallback of setTeamSelection
StoreLocally(nextTeam) ==
  /\ team' = nextTeam
  /\ teamPersisted' = FALSE
  /\ stored' = nextTeam
  /\ durable' = [team |-> NoTeam, ran |-> FALSE]
  /\ lastEvent' = [lastEvent EXCEPT !.team = nextTeam, !.persisted = FALSE]

\* setTeamSelection up to `await apiSetUserTeam`, or all of it when no
\* backend is configured or the team has no id (one call is followed at a
\* time)
SetTeamSelection(nextTeam) ==
  /\ impl = "none"
  /\ initPc # "start"
  /\ providerMounted
  /\ teamCall = NoTeam
  /\ IF nextTeam = NoTeam
       THEN \* return { persisted: false }
            /\ selectionReturned' = [resp |-> "no-id", persisted |-> FALSE]
            /\ UNCHANGED <<team, teamPersisted, stored, teamCall, durable, lastEvent>>
       ELSE IF apiAvailable
         THEN /\ teamCall' = nextTeam
              /\ selectionReturned' = NoReturn
              /\ UNCHANGED <<team, teamPersisted, stored, durable, lastEvent>>
         ELSE /\ StoreLocally(nextTeam)
              /\ selectionReturned' = [resp |-> "unavailable", persisted |-> FALSE]
              /\ UNCHANGED teamCall
  /\ lookupSeen' = NoLookup
  /\ UNCHANGED <<callbackVars, svcVars, providerMounted, authSession, user, role, loading, teamLoading,
                 apiAvailable, initPc, initUser, pending, eventCount>>

\* (mutation: any answer of the backend counts as a durable write)
SetTeamSelectionReturnsAnyAnswer(r) ==
  /\ impl = "none"
  /\ teamCall # NoTeam
  /\ IF r # "throws"
       THEN /\ team' = teamCall
            /\ teamPersisted' = TRUE
            /\ stored' = NoTeam
            /\ durable' = [team |-> teamCall, ran |-> FALSE]
            /\ lastEvent' = [lastEvent EXCEPT !.team = teamCall, !.persisted = TRUE]
            /\ pending' = [k \in 1..Len(pending) |->
                             [pending[k] EXCEPT !.afterWrite = FALSE]]
            /\ selectionReturned' = [resp |-> r, persisted |-> TRUE]
       ELSE /\ StoreLocally(teamCall)
            /\ UNCHANGED pending
            /\ selectionReturned' = [resp |-> r, persisted |-> FALSE]
  /\ teamCall' = NoTeam
  /\ lookupSeen' = NoLookup
  /\ UNCHANGED <<callbackVars, svcVars, providerMounted, authSession, user, role, loading, teamLoading,
                 apiAvailable, initPc, initUser, eventCount>>

\* setTeamSelection from the return of apiSetUserTeam on: the backend
\* reported success, did not, or the request threw
SetTeamSelectionReturns(r) ==
  /\ impl = "none"
  /\ teamCall # NoTeam
  /\ IF r = "success"
       THEN /\ team' = teamCall
            /\ teamPersisted' = TRUE
            \* clearStoredTeam()
            /\ stored' = NoTeam
            /\ durable' = [team |-> teamCall, ran |-> FALSE]
            /\ lastEvent' = [lastEvent EXCEPT !.team = teamCall, !.persisted = TRUE]
            /\ pending' = [k \in 1..Len(pending) |->
                             [pending[k] EXCEPT !.afterWrite = FALSE]]
            \* return { persisted: true }
            /\ selectionReturned' = [resp |-> r, persisted |-> TRUE]
       ELSE /\ StoreLocally(teamCall)
            /\ UNCHANGED pending
            \* return { persisted: false }
            /\ selectionReturned' = [resp |-> r, persisted |-> FALSE]
  /\ teamCall' = NoTeam
  /\ lookupSeen' = NoLookup
  /\ UNCHANGED <<callbackVars, svcVars, providerMounted, authSession, user, role, loading, teamLoading,
                 apiAvailable, initPc, initUser, eventCount>>

\* clearTeamSelection
ClearTeamSelection ==
  /\ impl = "none"
  /\ initPc # "start"
  /\ providerMounted
  /\ stored' = NoTeam
  /\ team' = NoTeam
  /\ teamPersisted' = FALSE
  /\ durable' = [team |-> NoTeam, ran |-> FALSE]
  /\ lastEvent' = [lastEvent EXCEPT !.team = NoTeam, !.persisted = FALSE]
  /\ lookupSeen' = NoLookup
  /\ selectionReturned' = NoReturn
  /\ UNCHANGED <<callbackVars, svcVars, providerMounted, authSession, user, role, loading, teamLoading,
                 apiAvailable, initPc, initUser, pending, teamCall, eventCount>>

\* the cleanup of the effect: AuthProvider is torn down. The function
\* initSession resolves to, which would unsubscribe, is not called
Teardown ==
  /\ impl = "none"
  /\ initPc # "start"
  /\ providerMounted
  /\ providerMounted' = FALSE
  /\ lookupSeen' = NoLookup
  /\ selectionReturned' = NoReturn
  /\ UNCHANGED <<callbackVars, svcVars, authSession, user, role, loading, team,
                 teamPersisted, teamLoading, stored, apiAvailable, initPc,
                 initUser, pending, teamCall, eventCount, lastEvent, durable>>

NextAuth ==
  \/ InitSessionStart
  \/ \E u \in SessionUsers \cup {NoUser}, threw \in BOOLEAN :
       InitSessionGetSession(u, threw)
  \/ \E resp \in ProfileResponses : InitSessionLookupReturns(resp)
  \/ \E u \in SampleUsers \cup {NoUser} : AuthEvent(u)
  \/ \E i \in 1..MaxPending, resp \in ProfileResponses : LookupReturns(i, resp)
  \/ \E t \in SelectableTeams \cup {NoTeam} : SetTeamSelection(t)
  \/ \E r \in {"success", "failure", "throws"} : SetTeamSelectionReturns(r)
  \/ ClearTeamSelection
  \/ Teardown

SpecAuth == InitAuth /\ [][NextAuth]_vars

(* ------------------------------------------------------------------ *)
(* Backend proxy: apiClient, teamService, userAdminService             *)
(* ------------------------------------------------------------------ *)
\* values of the two environment variables and of the built-in default
EnvApiBaseSamples == {<<>>, <<" ">>, <<"h",":","a","/","/">>}
EnvBackendUrlSamples == {<<>>, <<"h",":","b">>}
DefaultBaseSamples == {<<>>, <<"h",":","d">>}

RECURSIVE StripSlashes(_)
\* .replace(/\/+$/, '')
StripSlashes(s) ==
  IF s # <<>> /\ s[Len(s)] = "/" THEN StripSlashes(SubSeq(s, 1, Len(s) - 1)) ELSE s

\* getApiBase: (a || b || fallback || '').trim().replace(/\/+$/, '') || null
\* (the empty sequence stands for null)
getApiBase ==
  StripSlashes(Trim(OrElse(envApiBase, OrElse(envBackendUrl, defaultBase))))

\* (mutation: the team API is taken to be available whatever the base is)
hasTeamApiAlways == TRUE

\* hasTeamApi().available: Boolean(getApiBase())
hasTeamApi == getApiBase # <<>>

\* getAdminApiStatus().available
getAdminApiStatus == getApiBase # <<>>

\* the letters and digits of /[^a-z0-9]+/
AlnumSet ==
  {LowerChars[i] : i \in 1..26} \cup {"0","1","2","3","4","5","6","7","8","9"}

RECURSIVE DropNonAlnum(_)
\* the rest of s after its leading run of characters outside [a-z0-9]
DropNonAlnum(s) ==
  IF s # <<>> /\ Head(s) \notin AlnumSet THEN DropNonAlnum(Tail(s)) ELSE s

RECURSIVE Dashed(_)
\* .replace(/[^a-z0-9]+/g, '-')
Dashed(s) ==
  IF s = <<>> THEN <<>>
  ELSE IF Head(s) \in AlnumSet THEN <<Head(s)>> \o Dashed(Tail(s))
  ELSE <<"-">> \o Dashed(DropNonAlnum(s))

RECURSIVE StripLeadingDashes(_)
StripLeadingDashes(s) ==
  IF s # <<>> /\ Head(s) = "-" THEN StripLeadingDashes(Tail(s)) ELSE s

RECURSIVE StripTrailingDashes(_)
StripTrailingDashes(s) ==
  IF s # <<>> /\ s[Len(s)] = "-"
    THEN StripTrailingDashes(SubSeq(s, 1, Len(s) - 1)) ELSE s

\* slugify: lower-case, trim, runs of other characters to '-', and
\* .replace(/(^-|-$)+/g, '')
slugify(str) == StripTrailingDashes(StripLeadingDashes(Dashed(Trim(ToLower(str)))))

\* String.prototype.toUpperCase
ToUpper(s) ==
  [i \in 1..Len(s) |->
     IF \E k \in 1..26 : LowerChars[k] = s[i]
       THEN UpperChars[CHOOSE k \in 1..26 : LowerChars[k] = s[i]] ELSE s[i]]

\* createTeam: primaryPath, payloads, altPaths
primaryPath == "/teams"
payloads == <<"{name}", "{team:{name}}", "{title}">>
altPaths == <<"/teams/create", "/team", "/team/create">>

\* names handed to createTeam and team ids handed to setUserTeam/summarizeTeam
NameSamples == {<<>>, <<" ">>, <<" ","A"," ","&","b","!">>}
TeamIdSamples == {<<>>, <<" ","t","1">>}

\* answers to a POST: an HTTP status, 0 when fetch itself rejects
HttpAnswers == {200, 400, 404, 405, 500, 0}

\* answers to OPTIONS /teams: the call throws, or returns meta with an Allow
\* value (empty when absent)
OptionsAnswers ==
  {[throws |-> TRUE, allow |-> <<>>],
   [throws |-> FALSE, allow |-> <<>>],
   [throws |-> FALSE, allow |-> <<"g","e","t",","," ","P","o","s","t">>],
   [throws |-> FALSE, allow |-> <<"G","E","T",","," ","H","E","A","D">>]}

\* answers to the single request of the other service functions
RequestAnswers == {"ok-success", "ok-plain", "fails"}

\* err.status of the error apiPost throws for a failed request: apiPost
\* throws `new Error(text || ...)`, which has no status property (0 stands for
\* undefined)
ErrStatus(http) == 0

\* if (status && ![400, 404, 405].includes(Number(status))) throw ...
Aborts(status) == status # 0 /\ status \notin {400, 404, 405}

\* no team
NoCreatedTeam == [id |-> <<>>, name |-> <<>>]

\* no result yet
NoResult ==
  [kind |-> "none", available |-> FALSE, success |-> FALSE, detail |-> "",
   team |-> NoCreatedTeam]

\* a returned value, and a thrown error
Value(avail, succ, det, tm) ==
  [kind |-> "value", available |-> avail, success |-> succ, detail |-> det,
   team |-> tm]
Thrown(det) ==
  [kind |-> "error", available |-> FALSE, success |-> FALSE, detail |-> det,
   team |-> NoCreatedTeam]

\* a page that is about to call the services
InitService ==
  /\ envApiBase \in EnvApiBaseSamples
  /\ envBackendUrl \in EnvBackendUrlSamples
  /\ defaultBase \in DefaultBaseSamples
  /\ svcOp = "none" /\ svcArg = <<>> /\ svcPc = "idle"
  /\ pathIdx = 0 /\ bodyIdx = 0 /\ posts = <<>> /\ requests = 0
  /\ lastHttp = 0 /\ svcResult = NoResult
  /\ CallbackAbsent
  /\ configured = FALSE /\ apiAvailable = FALSE /\ stored = NoTeam
  /\ initPc = "absent"
  /\ AuthState

\* a service function is entered: no call is in progress
Enter(op, arg) ==
  /\ impl = "none"
  /\ svcPc \in {"idle", "done"}
  /\ svcOp' = op
  /\ svcArg' = arg
  /\ lastHttp' = 0

\* the call returns or throws without a request
Ends(result) ==
  /\ svcResult' = result
  /\ svcPc' = "done"

\* the call sends its one request and awaits the answer
Requests(path) ==
  /\ svcResult' = NoResult
  /\ svcPc' = "request"
  /\ requests' = 1

\* getTeams up to `await apiGet('/teams')`
GetTeams ==
  /\ Enter("getTeams", <<>>)
  /\ IF ~hasTeamApi
       THEN Ends(Value(FALSE, FALSE, "sample-teams", NoCreatedTeam)) /\ requests' = 0
       ELSE Requests("/teams")
  /\ posts' = <<>> /\ pathIdx' = 0 /\ bodyIdx' = 0
  /\ UNCHANGED <<callbackVars, authVars, envApiBase, envBackendUrl, defaultBase>>

\* createTeam up to the first `await tryPost(primaryPath, body)`
CreateTeam(name) ==
  /\ Enter("createTeam", name)
  /\ LET safeName == Trim(name)
     IN IF safeName = <<>>
          THEN /\ Ends(Thrown("name-required"))
               /\ posts' = <<>> /\ requests' = 0 /\ bodyIdx' = 0
          ELSE IF ~hasTeamApi
            THEN /\ Ends(Value(FALSE, FALSE, "local-team",
                               [id |-> slugify(safeName), name |-> safeName]))
                 /\ posts' = <<>> /\ requests' = 0 /\ bodyIdx' = 0
            ELSE /\ svcResult' = NoResult
                 /\ svcPc' = "primary"
                 /\ bodyIdx' = 1
                 /\ posts' = <<[path |-> primaryPath, body |-> payloads[1]]>>
                 /\ requests' = 1
  /\ pathIdx' = 0
  /\ UNCHANGED <<callbackVars, authVars, envApiBase, envBackendUrl, defaultBase>>

\* the next POST of a loop over alternate paths and payloads
PostAlt(at, pi, bi) ==
  /\ svcPc' = at
  /\ pathIdx' = pi
  /\ bodyIdx' = bi
  /\ posts' = Append(posts, [path |-> altPaths[pi], body |-> payloads[bi]])
  /\ requests' = requests + 1
  /\ UNCHANGED svcResult

\* createTeam ends: it returns the team or throws
CreateTeamEnds(result) ==
  /\ Ends(result)
  /\ UNCHANGED <<pathIdx, bodyIdx, posts, requests>>

\* createTeam from the return of one `await tryPost(path, body)` to the next
\* await or to its end
TryPostReturns(http) ==
  /\ impl = "none"
  /\ svcOp = "createTeam"
  /\ svcPc \in {"primary", "guided", "brute"}
  /\ lastHttp' = http
  /\ IF http = 200
       THEN \* out.ok: return { available: true, team }
            CreateTeamEnds(Value(TRUE, FALSE, "team",
                                 [id |-> slugify(Trim(svcArg)), name |-> Trim(svcArg)]))
       ELSE IF Aborts(ErrStatus(http))
         THEN IF svcPc = "guided"
                \* thrown inside `try { ... } catch { }`: the alternates follow
                THEN PostAlt("brute", 1, 1)
                ELSE CreateTeamEnds(Thrown("request-failed"))
         ELSE IF svcPc = "primary"
           THEN IF bodyIdx < Len(payloads)
                  THEN /\ svcPc' = "primary"
                       /\ bodyIdx' = bodyIdx + 1
                       /\ posts' = Append(posts, [path |-> primaryPath,
                                                  body |-> payloads[bodyIdx + 1]])
                       /\ requests' = requests + 1
                       /\ UNCHANGED <<pathIdx, svcResult>>
                  ELSE \* await apiOptions(primaryPath)
                       /\ svcPc' = "options"
                       /\ requests' = requests + 1
                       /\ UNCHANGED <<pathIdx, bodyIdx, posts, svcResult>>
           ELSE IF bodyIdx < Len(payloads)
             THEN PostAlt(svcPc, pathIdx, bodyIdx + 1)
             ELSE IF pathIdx < Len(altPaths)
               THEN PostAlt(svcPc, pathIdx + 1, 1)
               ELSE IF svcPc = "guided"
                 \* throw new Error('... does not allow POST ...') inside the
                 \* try: caught, the alternates follow
                 THEN PostAlt("brute", 1, 1)
                 ELSE CreateTeamEnds(Thrown("all-routes-rejected"))
  /\ UNCHANGED <<callbackVars, authVars, envApiBase, envBackendUrl, defaultBase,
                 svcOp, svcArg>>

\* createTeam from the return of `await apiOptions(primaryPath)` to the next
\* await
OptionsReturns(o) ==
  /\ impl = "none"
  /\ svcOp = "createTeam"
  /\ svcPc = "options"
  /\ LET allow == ToUpper(o.allow)
     IN IF ~o.throws /\ allow # <<>> /\ ~Includes(allow, <<"P","O","S","T">>)
          THEN PostAlt("guided", 1, 1)
          ELSE PostAlt("brute", 1, 1)
  /\ UNCHANGED <<callbackVars, authVars, envApiBase, envBackendUrl, defaultBase,
                 svcOp, svcArg, lastHttp>>

\* summarizeTeam up to `await apiPost(...)`
SummarizeTeam(teamId) ==
  /\ Enter("summarizeTeam", teamId)
  /\ IF Trim(teamId) = <<>>
       THEN Ends(Thrown("teamId-required")) /\ requests' = 0
       ELSE IF ~hasTeamApi
         THEN Ends(Thrown("backend-not-configured")) /\ requests' = 0
         ELSE Requests("/teams/:id/summarize")
  /\ posts' = <<>> /\ pathIdx' = 0 /\ bodyIdx' = 0
  /\ UNCHANGED <<callbackVars, authVars, envApiBase, envBackendUrl, defaultBase>>

\* setUserTeam up to `await apiPost('/users/me/team', ...)`
SetUserTeam(teamId) ==
  /\ Enter("setUserTeam", teamId)
  /\ IF Trim(teamId) = <<>>
       THEN Ends(Thrown("teamId-required")) /\ requests' = 0
       ELSE IF ~hasTeamApi
         THEN Ends(Value(FALSE, TRUE, "local-only", NoCreatedTeam)) /\ requests' = 0
         ELSE Requests("/users/me/team")
  /\ posts' = <<>> /\ pathIdx' = 0 /\ bodyIdx' = 0
  /\ UNCHANGED <<callbackVars, authVars, envApiBase, envBackendUrl, defaultBase>>

\* fetchUsers up to `await apiGet('/admin/users')`
FetchUsers ==
  /\ Enter("fetchUsers", <<>>)
  /\ IF ~getAdminApiStatus
       THEN Ends(Value(FALSE, FALSE, "no-users", NoCreatedTeam)) /\ requests' = 0
       ELSE Requests("/admin/users")
  /\ posts' = <<>> /\ pathIdx' = 0 /\ bodyIdx' = 0
  /\ UNCHANGED <<callbackVars, authVars, envApiBase, envBackendUrl, defaultBase>>

\* updateUserRole up to `await apiPost('/admin/users/role', payload)`
UpdateUserRole ==
  /\ Enter("updateUserRole", <<>>)
  /\ IF ~getAdminApiStatus
       THEN Ends(Value(FALSE, FALSE, "not-configured", NoCreatedTeam)) /\ requests' = 0
       ELSE Requests("/admin/users/role")
  /\ posts' = <<>> /\ pathIdx' = 0 /\ bodyIdx' = 0
  /\ UNCHANGED <<callbackVars, authVars, envApiBase, envBackendUrl, defaultBase>>

\* the single request of getTeams, summarizeTeam, setUserTeam, fetchUsers or
\* updateUserRole is answered: a failed request is thrown on to the caller
RequestReturns(r) ==
  /\ impl = "none"
  /\ svcPc = "request"
  /\ svcPc' = "done"
  /\ svcResult' =
       IF r = "fails" THEN Thrown("request-failed")
       ELSE IF svcOp = "setUserTeam"
         THEN Value(TRUE, r = "ok-success", "answered", NoCreatedTeam)
       ELSE IF svcOp = "updateUserRole"
         \* success: ok || true
         THEN Value(TRUE, TRUE, "answered", NoCreatedTeam)
       ELSE IF svcOp = "summarizeTeam"
         THEN Value(FALSE, FALSE, "summary", NoCreatedTeam)
       ELSE Value(TRUE, FALSE, "answered", NoCreatedTeam)
  /\ UNCHANGED <<callbackVars, authVars, envApiBase, envBackendUrl, defaultBase,
                 svcOp, svcArg, pathIdx, bodyIdx, posts, requests, lastHttp>>

NextService ==
  \/ GetTeams
  \/ \E name \in NameSamples : CreateTeam(name)
  \/ \E http \in HttpAnswers : TryPostReturns(http)
  \/ \E o \in OptionsAnswers : OptionsReturns(o)
  \/ \E id \in TeamIdSamples : SummarizeTeam(id)
  \/ \E id \in TeamIdSamples : SetUserTeam(id)
  \/ FetchUsers
  \/ UpdateUserRole
  \/ \E r \in RequestAnswers : RequestReturns(r)

SpecService == InitService /\ [][NextService]_vars

(* ------------------------------------------------------------------ *)
(* Route guards: what each guard renders from the published state      *)
(* ------------------------------------------------------------------ *)
\* isManager(), isAdmin()
isManager == role = RoleManager
isAdmin == role = RoleAdmin

\* ProtectedRoute; authDisabled is isAuthDisabled()
ProtectedRoute(authDisabled) ==
  IF authDisabled THEN "children"
  ELSE IF loading THEN "loading"
  ELSE IF user = NoUser THEN "login"
  ELSE "children"

\* ManagerRoute
ManagerRoute(authDisabled) ==
  IF authDisabled THEN "children"
  ELSE IF loading THEN "loading"
  ELSE IF user = NoUser THEN "login"
  ELSE IF ~(isManager \/ isAdmin) THEN "unauthorized"
  ELSE "children"

\* (mutation: the role test is left out)
AdminRouteAnyRole(authDisabled) ==
  IF authDisabled THEN "children"
  ELSE IF loading THEN "loading"
  ELSE IF user = NoUser THEN "login"
  ELSE "children"

\* AdminRoute
AdminRoute(authDisabled) ==
  IF authDisabled THEN "children"
  ELSE IF loading THEN "loading"
  ELSE IF user = NoUser THEN "login"
  ELSE IF ~isAdmin THEN "unauthorized"
  ELSE "children"

(* ------------------------------------------------------------------ *)
(* Properties of the callback page                                     *)
(* ------------------------------------------------------------------ *)
\* the sample error values that contain access_denied, access-denied, denied
\* or cancel in some letter case
DenialSamples == {ErrAccessDenied, ErrUserCancelled}

\* the query string or the fragment carries an error matching the pattern
UrlCarriesDenial ==
  searchError \in DenialSamples \/ hashError \in DenialSamples

\* the error the page acts on (query first, else fragment) matches
EffectiveDenial == oauthError \in DenialSamples

C2_UnsubscribedOnceAtTerminal ==
  phase \in Terminal => (unsubCalls = subsOpened /\ liveSubs = 0)

\* C3 as stated: within a run, once TIMED_OUT a later session event neither
\* changes the outcome nor navigates, and once CONFIRMED the timer cannot
\* produce TIMED_OUT.
C3_OneSideDecides ==
  [][ /\ (phase = "TIMED_OUT" /\ runs' = runs) =>
            (phase' = "TIMED_OUT" /\ navCount' = navCount)
      /\ (phase = "CONFIRMED" => phase' = "CONFIRMED") ]_vars

\* C4 as stated: navigation happens only from CONFIRMED with a session, never
\* in or after TIMED_OUT, DENIED or CONFIG_MISSING.
C4_NavigateOnlyConfirmed ==
  [][ navCount' # navCount =>
        /\ phase \notin {"TIMED_OUT", "DENIED", "CONFIG_MISSING"}
        /\ phase' = "CONFIRMED" ]_vars

\* the run had no code and no implicit tokens, getSession returned no session
\* and no auth event carried one
NoSessionRun ==
  /\ ~hasCode /\ ~hashAccess /\ ~hashRefresh
  /\ getSessionCalls > 0 /\ pc # "getSession"
  /\ ~sessionSeen
  /\ phase # "FAILED"

\* C8: a run without code, tokens, session or session event can only end in
\* TIMED_OUT, its timer stays pending until then, and TIMED_OUT is entered only
\* once the full timeout budget has elapsed.
C8_TimesOutAfterBudget ==
  NoSessionRun =>
    /\ phase \in {"WAITING", "TIMED_OUT"}
    /\ (phase = "WAITING" => timerArmed)
    /\ (phase = "TIMED_OUT" => (elapsed >= TimeoutMs /\ ~timerArmed))

\* C8 witness: such a run has timed out
C8_Witness == NoSessionRun /\ phase = "TIMED_OUT" /\ configured

\* C9: after a failed code exchange or token set the run goes on: getSession
\* has been called, the run has not ended in a failure of its own, and a
\* session found then or delivered by an auth event ends it CONFIRMED.
C9_SoftFailureFallsThrough ==
  softFailed =>
    /\ getSessionCalls = 1
    /\ pc \in {"getSession", "waiting", "done"}
    /\ (pc = "getSession" => phase = "WAITING")
    /\ (sessionSeen => phase = "CONFIRMED")

\* C9 witness: exchange failed, getSession found nothing, an event confirmed
C9_Witness ==
  /\ softFailed /\ hasCode /\ exchangeCalls = 1
  /\ subsOpened = 1 /\ sessionSeen /\ phase = "CONFIRMED"

\* C10 as stated: in a terminal state the URL is the cleaned callback URL and
\* the rewrite has happened exactly once in the run.
C10_CleanedOnceAtTerminal ==
  phase \in Terminal => (url = CleanUrl /\ cleanupCount = 1)

\* a step in which cleanupUrl is called
CleanupStep ==
  \/ cleanupCount' > cleanupCount
  \/ (runs' # runs /\ cleanupCount' > 0)

\* C11 as stated: the URL is rewritten only in a step that establishes a
\* session or reaches a final failure, and in a run with a code or both tokens
\* only after the code exchange or token set has been invoked.
C11_CleanupOnlyAtEnd ==
  [][ CleanupStep =>
        /\ runs' > 0
        /\ (phase' \in Terminal \/ phase' = "FAILED")
        /\ (phase' # "DENIED" /\ (hasCode \/ (hashAccess /\ hashRefresh))
              => exchangeCalls' + setSessionCalls' > 0) ]_vars

FailureStates == {"TIMED_OUT", "DENIED", "CONFIG_MISSING"}

\* C13: in pages/AuthCallback.jsx every failure state shows a Retry button and
\* a link to /login carrying the redirect target, and a retry starts a fresh
\* run: checking set and timedOut/error cleared unless the configuration or
\* denial check ends it at once, a new getSession call otherwise.
C13_RetryRerunsMachine ==
  /\ [](impl = "runCheck" /\ phase \in FailureStates =>
          /\ mounted /\ RetryVisible /\ BackToLoginVisible
          /\ retryHref.path = "/login"
          /\ retryHref.redirect = (IF redirectGiven THEN "/history" ELSE "/reports/new"))
  /\ [][ (impl = "runCheck" /\ runs > 0 /\ runs' = runs + 1) =>
          /\ phase \in FailureStates
          /\ phase' = IF ~configured THEN "CONFIG_MISSING"
                      ELSE IF EffectiveDenial THEN "DENIED" ELSE "WAITING"
          /\ (phase' = "WAITING" =>
                /\ checking' /\ ~timedOut' /\ error' = "none"
                /\ getSessionCalls' = 1 /\ pc' = "getSession"
                /\ subsOpened' = 0) ]_vars

\* C13 witness: a retry taken after a timeout is waiting again
C13_Witness ==
  /\ impl = "runCheck" /\ runs = 2 /\ phase = "WAITING"
  /\ checking /\ ~timedOut /\ error = "none"

\* C14 as stated: every started run eventually reaches one of CONFIRMED,
\* TIMED_OUT, DENIED, CONFIG_MISSING.
C14_EveryRunEndsInTerminal == (runs > 0) ~> (phase \in Terminal)

\* C15: exchangeCodeForSession is called at most once and only with a code,
\* setSession only without a code and with both tokens, never both in a run.
C15_ExchangeXorSetSession ==
  /\ exchangeCalls <= 1
  /\ (exchangeCalls > 0 => hasCode)
  /\ (setSessionCalls > 0 => (~hasCode /\ hashAccess /\ hashRefresh))
  /\ ~(exchangeCalls > 0 /\ setSessionCalls > 0)

\* C15 witness: a URL with a code and both tokens led to the exchange alone
C15_Witness ==
  /\ hasCode /\ hashAccess /\ hashRefresh
  /\ exchangeCalls = 1 /\ setSessionCalls = 0 /\ pc = "getSession"

(* ------------------------------------------------------------------ *)
(* Properties of AuthProvider                                          *)
(* ------------------------------------------------------------------ *)
\* no pipeline run is in progress
PipelineFinished == initPc = "subscribed" /\ pending = <<>>

\* C5 as stated: once the pipeline has finished for a user whose trimmed,
\* lower-cased app_metadata.role is a valid role, the published role is that
\* value, whatever the other sources say.
C5_AppRoleWins ==
  (PipelineFinished /\ user # NoUser /\ Trim(ToLower(user.appRole)) \in ValidRoles)
    => role = Trim(ToLower(user.appRole))

\* C6 as stated: once all pending lookups have completed, the published
\* session, user, role, team and teamPersisted are those computed for the
\* user of the most recent auth-state-change event.
C6_LatestEventAuthoritative ==
  (PipelineFinished /\ teamCall = NoTeam /\ eventCount > 0) =>
    /\ authSession = lastEvent.user.id
    /\ user = lastEvent.user
    /\ role = lastEvent.role
    /\ team = lastEvent.team
    /\ teamPersisted = lastEvent.persisted

\* C7 as stated: after a successful durable write the local cache is empty and
\* every pipeline run started afterwards (here: for a signed-in user) publishes
\* the selected team with teamPersisted = true.
C7_DurableTeamSurvives ==
  durable.team # NoTeam =>
    /\ stored = NoTeam
    /\ (durable.ran => (team.id = durable.team.id /\ teamPersisted))

\* x is, trimmed and lower-cased, one of employee, manager, admin
IsValidRole(x) == Trim(ToLower(x)) \in ValidRoles

\* the role the user's metadata gives: app_metadata first, then user_metadata
MetaRoleOf(u) ==
  IF IsValidRole(u.appRole) THEN Trim(ToLower(u.appRole))
  ELSE IF IsValidRole(u.metaRole) THEN Trim(ToLower(u.metaRole))
  ELSE NullRole

\* the role the email alone gives (letter case ignored)
EmailRole(e) ==
  IF Includes(ToLower(e), RoleAdmin) THEN RoleAdmin
  ELSE IF Includes(ToLower(e), RoleManager) \/ Includes(ToLower(e), <<"l","e","a","d">>)
    THEN RoleManager
  ELSE RoleEmployee

\* the profiles lookup of the last run succeeded and carries a valid role
ProfileUsable ==
  lookupSeen.resp.kind = "row" /\ IsValidRole(lookupSeen.resp.role)

\* the page-load run of the pipeline has just finished for a signed-in user
InitRunDone ==
  /\ initPc = "subscribed" /\ eventCount = 0
  /\ lookupSeen # NoLookup /\ user = lookupSeen.user

\* C16 as stated: with no valid app_metadata.role and a valid
\* user_metadata.role, the role published by the run is user_metadata.role,
\* whatever the profile record and the email are.
C16_UserMetaRoleSecond ==
  (InitRunDone /\ ~IsValidRole(user.appRole) /\ IsValidRole(user.metaRole))
    => role = Trim(ToLower(user.metaRole))

\* the team the first matching source gives: [id, persisted, cached]
ExpectedTeam(u, resp, cache) ==
  IF u.appTeam # "" THEN [id |-> u.appTeam, persisted |-> TRUE, cached |-> FALSE]
  ELSE IF u.metaTeam # "" THEN [id |-> u.metaTeam, persisted |-> TRUE, cached |-> FALSE]
  ELSE IF resp.kind = "row" /\ resp.teamId # ""
    THEN [id |-> resp.teamId, persisted |-> TRUE, cached |-> FALSE]
  ELSE [id |-> cache.id, persisted |-> FALSE, cached |-> TRUE]

\* a step in which the page-load run for a signed-in user finishes
RunFinishes == lookupSeen' # NoLookup

\* a step in which the i-th suspended event handler finishes
HandlerFinishes(i) ==
  i \in 1..Len(pending) /\ pending' = RemoveAt(pending, i)

\* C17 as stated: the profile role is published exactly when neither metadata
\* role is valid and the lookup succeeded with a valid role; after a denied,
\* failed or throwing lookup the run has completed without error state and
\* publishes the role and the team that the user's metadata, email and the
\* local cache give.
C17_ProfileThirdSource ==
  /\ [](InitRunDone =>
          /\ ((MetaRoleOf(user) = NullRole /\ ProfileUsable)
                => role = Trim(ToLower(lookupSeen.resp.role)))
          /\ (~(MetaRoleOf(user) = NullRole /\ ProfileUsable)
                => role = IF MetaRoleOf(user) # NullRole
                            THEN MetaRoleOf(user) ELSE EmailRole(user.email))
          /\ (lookupSeen.resp.kind # "row" => (~loading /\ ~teamLoading)))
  /\ [][ (RunFinishes /\ lookupSeen'.resp.kind # "row") =>
          LET e == ExpectedTeam(lookupSeen'.user, NoLookup.resp, stored)
          IN /\ team'.id = e.id /\ teamPersisted' = e.persisted
             /\ ~teamLoading' ]_vars

\* C18: with no valid role in app_metadata, user_metadata or a reachable
\* profile record, the role published by the run is given by the email: admin
\* if it contains "admin", else manager if it contains "manager" or "lead",
\* else employee (letter case ignored).
C18_EmailHeuristic ==
  (InitRunDone /\ MetaRoleOf(user) = NullRole /\ ~ProfileUsable)
    => role = EmailRole(user.email)

\* C18 witness: a user without metadata roles, whose profile row has no valid
\* role and whose email contains both "admin" and "lead", is published admin
C18_Witness ==
  /\ InitRunDone /\ user = UserAdminLeadMail
  /\ lookupSeen.resp.kind = "row" /\ role = RoleAdmin

\* team and teamPersisted after the step are the first match for user u,
\* profiles answer resp and the cached selection
PublishesFirstMatch(u, resp) ==
  LET e == ExpectedTeam(u, resp, stored)
  IN /\ team'.id = e.id
     /\ teamPersisted' = e.persisted
     /\ (e.cached => team' = stored)

C20_RoleValidWhileSignedIn ==
  (authSession # "" /\ user # NoUser) => role \in ValidRoles

\* C20 witness: a signed-in user whose role came from the profile record
C20_Witness ==
  /\ authSession = "u6" /\ user = UserPlainMail
  /\ lookupSeen.resp.role = <<"M","a","n","a","g","e","r"," ">>
  /\ role = RoleManager

\* the teams a durable source can give: identity metadata, a profile row, or
\* the selection the backend has confirmed
DurableTeams ==
  {[id |-> metaTeamId(u), name |-> u.teamName] :
     u \in {w \in SessionUsers : metaTeamId(w) # ""}}
  \cup {loadRoleFromProfiles(r).team : r \in ProfileResponses}
  \cup {durable.team}

\* a step in which a pipeline run ends in its local-cache branch: a run
\* without a user, or the page-load run of a user with no metadata team whose
\* profile lookup gave no team
CacheRun ==
  \/ initPc = "start" /\ initPc' = "done"
  \/ initPc = "getSession" /\ initPc' = "subscribed" /\ providerMounted
  \/ eventCount' # eventCount /\ user' = NoUser
  \/ RunFinishes /\ ExpectedTeam(lookupSeen'.user, lookupSeen'.resp, stored).cached

\* C30: in every reachable state teamPersisted = true implies a non-null team
\* that a durable source gave; and a run that takes the team from the local
\* cache publishes exactly the cached value with teamPersisted = false.
C30_PersistedImpliesTeam ==
  /\ [](teamPersisted => (team # NoTeam /\ team \in DurableTeams))
  /\ [][ CacheRun => (team' = stored /\ ~teamPersisted') ]_vars

\* C30 witness: the page-load run of a signed-in user published a cached
\* selection, not persisted
C30_Witness ==
  /\ InitRunDone /\ team = stored /\ team # NoTeam /\ ~teamPersisted

\* C25: with auth enabled, a guard renders its children only if loading is
\* false and a user is present, and for ManagerRoute the role is manager or
\* admin, for AdminRoute admin; while loading is true every guard shows the
\* loading placeholder: no children, no redirect.
C25_GuardsRenderOnlyAuthorized ==
  /\ (ProtectedRoute(FALSE) = "children" => (~loading /\ user # NoUser))
  /\ (ManagerRoute(FALSE) = "children"
        => (~loading /\ user # NoUser /\ role \in {RoleManager, RoleAdmin}))
  /\ (AdminRoute(FALSE) = "children"
        => (~loading /\ user # NoUser /\ role = RoleAdmin))
  /\ (loading => /\ ProtectedRoute(FALSE) = "loading"
                 /\ ManagerRoute(FALSE) = "loading"
                 /\ AdminRoute(FALSE) = "loading")

\* C25 witness: a signed-in manager is shown the manager pages and is turned
\* away from the admin pages
C25_Witness ==
  /\ PipelineFinished /\ ~loading /\ user # NoUser /\ role = RoleManager
  /\ ManagerRoute(FALSE) = "children" /\ AdminRoute(FALSE) = "unauthorized"

\* the profile lookup of a pipeline run for the published user has not
\* returned yet: the published role is the provisional one
LookupPending ==
  \/ initPc = "lookup"
  \/ \E i \in 1..Len(pending) : pending[i].user = user

\* C29 as stated: no guard takes a redirect decision on the provisional role
\* published before the profile lookup of the same run has finished.
C29_NoRedirectOnProvisionalRole ==
  (LookupPending /\ user # NoUser) =>
    /\ ManagerRoute(FALSE) # "unauthorized"
    /\ AdminRoute(FALSE) # "unauthorized"

\* C28: a retry run uses the redirect outcome parsed on the first run: the
\* parameters runCheck reads do not change, also not by the URL cleanup, so a
\* retry after DENIED ends DENIED again at once, without a getSession call and
\* without a subscription, whether or not a session exists by then.
C28_RetryAfterDeniedIsDenied ==
  [][ /\ UNCHANGED inputVars
      /\ (phase = "DENIED" /\ runs' = runs + 1) =>
            /\ url = CleanUrl /\ oauthError' = oauthError
            /\ phase' = "DENIED" /\ pc' = "done" /\ error' = "denied"
            /\ getSessionCalls' = 0 /\ subsOpened' = 0
            /\ ~session' ]_vars

\* C28 witness: a retry after a denial has ended denied, on the cleaned URL
C28_Witness ==
  /\ impl = "runCheck" /\ runs = 2 /\ phase = "DENIED"
  /\ url = CleanUrl /\ getSessionCalls = 0 /\ liveSubs = 0

\* a step in which a setTeamSelection call for the team t returns
SelectionReturns(t) ==
  \/ teamCall = t /\ teamCall' = NoTeam
  \/ teamCall = NoTeam /\ teamCall' = NoTeam /\ ~apiAvailable
       /\ selectionReturned'.resp = "unavailable" /\ stored' = t

Pipeline(u, resp, cache) ==
  LET initial == deriveRoleFromUser(u)
      fp == IF u = NoUser THEN [role |-> NullRole, team |-> NoTeam]
            ELSE loadRoleFromProfiles(resp)
      rt == ResolveTeam(u, fp.team, cache)
  IN [role |-> IF fp.role # NullRole /\ fp.role # initial THEN fp.role ELSE initial,
      team |-> rt.team, persisted |-> rt.persisted]

\* the published role, team and teamPersisted
Published == [role |-> role, team |-> team, persisted |-> teamPersisted]

\* a step in which a pipeline run without a user runs from start to end
SignedOutRun ==
  \/ initPc = "start" /\ initPc' = "done"
  \/ initPc = "getSession" /\ initPc' = "subscribed" /\ providerMounted
  \/ eventCount' # eventCount /\ user' = NoUser

\* C21: what a run publishes depends on the user, the profiles answer and the
\* cached selection only, not on what was published before, so a second run
\* on the same three publishes the same role, team and teamPersisted; and no
\* step of the pipeline writes the local cache. A run is one that no later
\* auth event has overtaken.
C21_PipelineIdempotent ==
  [][ /\ (RunFinishes =>
            Published' = Pipeline(lookupSeen'.user, lookupSeen'.resp, stored))
      /\ (SignedOutRun => Published' = Pipeline(NoUser, NoLookup.resp, stored))
      /\ ((Len(pending') < Len(pending) /\ Len(pending) = 1
             /\ pending[1].seq = eventCount) =>
            \E resp \in ProfileResponses :
              Published' = Pipeline(pending[1].user, resp, stored))
      /\ ((initPc' # initPc \/ eventCount' # eventCount
             \/ Len(pending') # Len(pending)) => stored' = stored) ]_vars

\* C21 witness: after the page-load run, the run of the first auth event has
\* finished for a user without a metadata team, with the cached selection
\* still in place and published
C21_Witness ==
  /\ initPc = "subscribed" /\ eventCount = 1 /\ pending = <<>>
  /\ user = UserPlainLead /\ lastEvent.user = user
  /\ Published = Pipeline(user, NoLookup.resp, stored)
  /\ stored # NoTeam /\ team = stored

\* C24 as stated: once AuthProvider is torn down its auth-state-change
\* subscription is released, and no auth event is delivered to its handler
\* (which writes session, user and role) afterwards.
C24_NoEventAfterTeardown ==
  /\ [](~providerMounted => initPc # "subscribed")
  /\ [][ ~providerMounted =>
           (eventCount' = eventCount
            /\ UNCHANGED <<authSession, user, role>>) ]_vars

(* ------------------------------------------------------------------ *)
(* Properties of the backend proxy                                     *)
(* ------------------------------------------------------------------ *)
\* no backend base URL: getApiBase() is null
NoBaseUrl == getApiBase = <<>>

C26_OtherStatusAborts ==
  [][ (svcOp = "createTeam" /\ svcPc \in {"primary", "guided", "brute"}
        /\ lastHttp' \notin {0, 200, 400, 404, 405}) =>
        (svcPc' = "done" /\ svcResult'.kind = "error" /\ requests' = requests) ]_vars

\* the one ordered list of (path, payload) pairs
ProbeOrder ==
  [k \in 1..12 |->
     [path |-> IF k <= 3 THEN "/teams"
               ELSE IF k <= 6 THEN "/teams/create"
               ELSE IF k <= 9 THEN "/team" ELSE "/team/create",
      body |-> IF k % 3 = 1 THEN "{name}"
               ELSE IF k % 3 = 2 THEN "{team:{name}}" ELSE "{title}"]]

\* C27 as stated: the POSTs of one createTeam call are a prefix of the probe
\* order (so each pair is tried at most once and at most 12 POSTs are sent),
\* and a finished call has left a team or an error.
C27_PostsArePrefix ==
  svcOp = "createTeam" =>
    /\ Len(posts) <= 12
    /\ posts = SubSeq(ProbeOrder, 1, Len(posts))
    /\ (svcPc = "done" => svcResult.kind \in {"value", "error"})

====
